---- MODULE Spec2Model ----
(***************************************************************************)
(* QuizMaster (src/app.py): question generation and answer evaluation with *)
(* a remote collaborator and deterministic fallbacks.                      *)
(*                                                                         *)
(* A text is a sequence of code points.  Python/JSON values are tagged     *)
(* records (JStr, JNum, JFloat, JBool, JNull, JList, JObj); a dict is a    *)
(* function from key strings to values.  Integers are TLC integers; a      *)
(* float is a finite double of the form num / 2^bits.                      *)
(* An int that int() makes of a text of more than nine digits is kept as   *)
(* its decimal digits (JBig).                                              *)
(***************************************************************************)
EXTENDS Integers, Sequences, FiniteSets, TLC

VARIABLES pc, op, data, log, replies, idx, results, total_score, total_time, out

vars == <<pc, op, data, log, replies, idx, results, total_score, total_time, out>>

(***************************************************************************)
(* Bounds of the model.                                                    *)
(***************************************************************************)
\* longest batch of submissions a request carries
MaxBatch == 2
\* largest reference vocabulary the scoring specification draws
MaxWords == 50

(***************************************************************************)
(* Program constants.                                                      *)
(***************************************************************************)
PromptContentLen == 4000
MinSentenceLen == 20
MaxSentences == 10
TopicLen == 50
MinQuestions == 1
MaxQuestions == 20
DefaultQuestions == 5
LeniencyBonus == 10
MaxScore == 100
PlagiarismThreshold == 90
AiLengthThreshold == 200
AiCommaThreshold == 5
GoodThreshold == 70
ExcellentThreshold == 80
GoodLevelThreshold == 60
Percent == 100
RoundScale == 100

\* characters the code names, as code points
Period == 46
Comma == 44

(***************************************************************************)
(* Interpreter constants.                                                  *)
(***************************************************************************)
\* a double's significand: a leading bit and FracLimbs limbs of 13 bits, each
\* limb produced in two steps of 7 and 6 bits
Limb == 8192
LimbBits == 13
LimbHigh == 128
LimbLow == 64
FracLimbs == 4
FracBits == 52
\* int(str) refuses more digits than this (sys.int_info.default_max_str_digits)
MaxStrDigits == 4300
\* an int of at most this many digits is written JNum(n), a longer one JBig
SmallDigits == 9
\* code points
AsciiEnd == 128
CapitalA == 65
CapitalZ == 90
SmallA == 97
SmallZ == 122
CaseGap == 32
DigitZero == 48
PlusSign == 43
MinusSign == 45
Underscore == 95
CapitalSigma == 931
FinalSigma == 962
SmallSigma == 963
CapitalIDot == 304
SmallI == 105
CombiningDot == 775

(***************************************************************************)
(* Values.                                                                 *)
(***************************************************************************)
JStr(s) == [t |-> "str", s |-> s]
JNum(n) == [t |-> "num", n |-> n]
\* the double num / 2^bits, with num odd or bits = 0
JFloat(num, bits) == [t |-> "float", num |-> num, bits |-> bits]
\* an int of more than SmallDigits digits: its sign and its decimal digits, the most
\* significant first
JBig(negative, digits) == [t |-> "num", negative |-> negative, digits |-> digits]
JBool(b) == [t |-> "bool", b |-> b]
JNull == [t |-> "null"]
JList(l) == [t |-> "list", l |-> l]
JObj(o) == [t |-> "obj", o |-> o]

\* dict.get(k, default)
Get(d, k, default) == IF k \in DOMAIN d THEN d[k] ELSE default

\* {**base, **ev}: the keys of ev win
Merge(base, ev) ==
    [k \in DOMAIN base \cup DOMAIN ev |-> IF k \in DOMAIN ev THEN ev[k] ELSE base[k]]

\* Python truthiness of a value
Truthy(v) ==
    CASE v.t = "bool" -> v.b
      [] v.t = "num" -> v.n # 0
      [] v.t = "float" -> v.num # 0
      [] v.t = "str" -> Len(v.s) > 0
      [] v.t = "list" -> Len(v.l) > 0
      [] v.t = "obj" -> DOMAIN v.o # {}
      [] OTHER -> FALSE

Min(a, b) == IF a < b THEN a ELSE b

(***************************************************************************)
(* Numbers: int, bool and float under +, int() and comparison.             *)
(***************************************************************************)
IsNumber(v) == v.t \in {"num", "bool", "float"}

\* the numerator of a number over 2^bits
Numerator(v, bits) ==
    CASE v.t = "bool" -> (IF v.b THEN 1 ELSE 0) * 2^bits
      [] v.t = "num" -> v.n * 2^bits
      [] v.t = "float" -> v.num * 2^(bits - v.bits)

FracBitsOf(v) == IF v.t = "float" THEN v.bits ELSE 0

\* num / 2^bits in lowest terms
RECURSIVE Reduced(_, _)
Reduced(num, bits) ==
    IF bits > 0 /\ num % 2 = 0 THEN Reduced(num \div 2, bits - 1)
    ELSE JFloat(num, bits)

\* a + b for numbers: an int when neither is a float, else the float sum (exact for
\* the doubles of the model)
Add(a, b) ==
    LET bits == IF FracBitsOf(a) < FracBitsOf(b) THEN FracBitsOf(b) ELSE FracBitsOf(a)
    IN  IF a.t = "float" \/ b.t = "float"
        THEN Reduced(Numerator(a, bits) + Numerator(b, bits), bits)
        ELSE JNum(Numerator(a, 0) + Numerator(b, 0))

\* int(x) for a number: floats are cut towards zero
Truncated(v) ==
    IF v.t = "float"
    THEN (IF v.num < 0 THEN -((-v.num) \div 2^(v.bits)) ELSE v.num \div 2^(v.bits))
    ELSE Numerator(v, 0)

(***************************************************************************)
(* Text primitives: str.strip, str.split, str.lower, str.count, slicing,   *)
(* str.replace, substring test, decimal formatting, int(str).              *)
(***************************************************************************)
\* the characters str.isspace() holds for: what strip() trims and split() cuts at
Whitespace ==
    (9..13) \cup (28..32) \cup {133, 160, 5760} \cup (8192..8202)
        \cup {8232, 8233, 8239, 8287, 12288}

InRanges(c, ranges) == \E i \in DOMAIN ranges : ranges[i][1] <= c /\ c <= ranges[i][2]

(***************************************************************************)
(* Character tables of the interpreter (CPython 3.11, Unicode 14.0.0), as  *)
(* code points.  A range is <<first, last>>.                               *)
(***************************************************************************)

\* str.lower() of one character outside ASCII: <<first, last, step, delta>> maps
\* first, first + step, ..., last to themselves plus delta
LowerRules ==
    <<
    <<192, 214, 1, 32>>, <<216, 222, 1, 32>>, <<256, 302, 2, 1>>, <<306, 310, 2, 1>>,
    <<313, 327, 2, 1>>, <<330, 374, 2, 1>>, <<376, 376, 1, -121>>, <<377, 381, 2, 1>>,
    <<385, 385, 1, 210>>, <<386, 388, 2, 1>>, <<390, 390, 1, 206>>, <<391, 391, 1, 1>>,
    <<393, 394, 1, 205>>, <<395, 395, 1, 1>>, <<398, 398, 1, 79>>, <<399, 399, 1, 202>>,
    <<400, 400, 1, 203>>, <<401, 401, 1, 1>>, <<403, 403, 1, 205>>, <<404, 404, 1, 207>>,
    <<406, 406, 1, 211>>, <<407, 407, 1, 209>>, <<408, 408, 1, 1>>, <<412, 412, 1, 211>>,
    <<413, 413, 1, 213>>, <<415, 415, 1, 214>>, <<416, 420, 2, 1>>, <<422, 422, 1, 218>>,
    <<423, 423, 1, 1>>, <<425, 425, 1, 218>>, <<428, 428, 1, 1>>, <<430, 430, 1, 218>>,
    <<431, 431, 1, 1>>, <<433, 434, 1, 217>>, <<435, 437, 2, 1>>, <<439, 439, 1, 219>>,
    <<440, 440, 1, 1>>, <<444, 444, 1, 1>>, <<452, 452, 1, 2>>, <<453, 453, 1, 1>>,
    <<455, 455, 1, 2>>, <<456, 456, 1, 1>>, <<458, 458, 1, 2>>, <<459, 475, 2, 1>>,
    <<478, 494, 2, 1>>, <<497, 497, 1, 2>>, <<498, 500, 2, 1>>, <<502, 502, 1, -97>>,
    <<503, 503, 1, -56>>, <<504, 542, 2, 1>>, <<544, 544, 1, -130>>, <<546, 562, 2, 1>>,
    <<570, 570, 1, 10795>>, <<571, 571, 1, 1>>, <<573, 573, 1, -163>>,
    <<574, 574, 1, 10792>>, <<577, 577, 1, 1>>, <<579, 579, 1, -195>>, <<580, 580, 1, 69>>,
    <<581, 581, 1, 71>>, <<582, 590, 2, 1>>, <<880, 882, 2, 1>>, <<886, 886, 1, 1>>,
    <<895, 895, 1, 116>>, <<902, 902, 1, 38>>, <<904, 906, 1, 37>>, <<908, 908, 1, 64>>,
    <<910, 911, 1, 63>>, <<913, 929, 1, 32>>, <<932, 939, 1, 32>>, <<975, 975, 1, 8>>,
    <<984, 1006, 2, 1>>, <<1012, 1012, 1, -60>>, <<1015, 1015, 1, 1>>,
    <<1017, 1017, 1, -7>>, <<1018, 1018, 1, 1>>, <<1021, 1023, 1, -130>>,
    <<1024, 1039, 1, 80>>, <<1040, 1071, 1, 32>>, <<1120, 1152, 2, 1>>,
    <<1162, 1214, 2, 1>>, <<1216, 1216, 1, 15>>, <<1217, 1229, 2, 1>>,
    <<1232, 1326, 2, 1>>, <<1329, 1366, 1, 48>>, <<4256, 4293, 1, 7264>>,
    <<4295, 4295, 1, 7264>>, <<4301, 4301, 1, 7264>>, <<5024, 5103, 1, 38864>>,
    <<5104, 5109, 1, 8>>, <<7312, 7354, 1, -3008>>, <<7357, 7359, 1, -3008>>,
    <<7680, 7828, 2, 1>>, <<7838, 7838, 1, -7615>>, <<7840, 7934, 2, 1>>,
    <<7944, 7951, 1, -8>>, <<7960, 7965, 1, -8>>, <<7976, 7983, 1, -8>>,
    <<7992, 7999, 1, -8>>, <<8008, 8013, 1, -8>>, <<8025, 8031, 2, -8>>,
    <<8040, 8047, 1, -8>>, <<8072, 8079, 1, -8>>, <<8088, 8095, 1, -8>>,
    <<8104, 8111, 1, -8>>, <<8120, 8121, 1, -8>>, <<8122, 8123, 1, -74>>,
    <<8124, 8124, 1, -9>>, <<8136, 8139, 1, -86>>, <<8140, 8140, 1, -9>>,
    <<8152, 8153, 1, -8>>, <<8154, 8155, 1, -100>>, <<8168, 8169, 1, -8>>,
    <<8170, 8171, 1, -112>>, <<8172, 8172, 1, -7>>, <<8184, 8185, 1, -128>>,
    <<8186, 8187, 1, -126>>, <<8188, 8188, 1, -9>>, <<8486, 8486, 1, -7517>>,
    <<8490, 8490, 1, -8383>>, <<8491, 8491, 1, -8262>>, <<8498, 8498, 1, 28>>,
    <<8544, 8559, 1, 16>>, <<8579, 8579, 1, 1>>, <<9398, 9423, 1, 26>>,
    <<11264, 11311, 1, 48>>, <<11360, 11360, 1, 1>>, <<11362, 11362, 1, -10743>>,
    <<11363, 11363, 1, -3814>>, <<11364, 11364, 1, -10727>>, <<11367, 11371, 2, 1>>,
    <<11373, 11373, 1, -10780>>, <<11374, 11374, 1, -10749>>, <<11375, 11375, 1, -10783>>,
    <<11376, 11376, 1, -10782>>, <<11378, 11378, 1, 1>>, <<11381, 11381, 1, 1>>,
    <<11390, 11391, 1, -10815>>, <<11392, 11490, 2, 1>>, <<11499, 11501, 2, 1>>,
    <<11506, 11506, 1, 1>>, <<42560, 42604, 2, 1>>, <<42624, 42650, 2, 1>>,
    <<42786, 42798, 2, 1>>, <<42802, 42862, 2, 1>>, <<42873, 42875, 2, 1>>,
    <<42877, 42877, 1, -35332>>, <<42878, 42886, 2, 1>>, <<42891, 42891, 1, 1>>,
    <<42893, 42893, 1, -42280>>, <<42896, 42898, 2, 1>>, <<42902, 42920, 2, 1>>,
    <<42922, 42922, 1, -42308>>, <<42923, 42923, 1, -42319>>, <<42924, 42924, 1, -42315>>,
    <<42925, 42925, 1, -42305>>, <<42926, 42926, 1, -42308>>, <<42928, 42928, 1, -42258>>,
    <<42929, 42929, 1, -42282>>, <<42930, 42930, 1, -42261>>, <<42931, 42931, 1, 928>>,
    <<42932, 42946, 2, 1>>, <<42948, 42948, 1, -48>>, <<42949, 42949, 1, -42307>>,
    <<42950, 42950, 1, -35384>>, <<42951, 42953, 2, 1>>, <<42960, 42960, 1, 1>>,
    <<42966, 42968, 2, 1>>, <<42997, 42997, 1, 1>>, <<65313, 65338, 1, 32>>,
    <<66560, 66599, 1, 40>>, <<66736, 66771, 1, 40>>, <<66928, 66938, 1, 39>>,
    <<66940, 66954, 1, 39>>, <<66956, 66962, 1, 39>>, <<66964, 66965, 1, 39>>,
    <<68736, 68786, 1, 64>>, <<71840, 71871, 1, 32>>, <<93760, 93791, 1, 32>>,
    <<125184, 125217, 1, 34>>
    >>

\* the characters the final-sigma rule skips (Case_Ignorable)
CaseIgnorableRanges ==
    <<
    <<39, 39>>, <<46, 46>>, <<58, 58>>, <<94, 94>>, <<96, 96>>, <<168, 168>>, <<173, 173>>,
    <<175, 175>>, <<180, 180>>, <<183, 184>>, <<688, 879>>, <<884, 885>>, <<890, 890>>,
    <<900, 901>>, <<903, 903>>, <<1155, 1161>>, <<1369, 1369>>, <<1375, 1375>>,
    <<1425, 1469>>, <<1471, 1471>>, <<1473, 1474>>, <<1476, 1477>>, <<1479, 1479>>,
    <<1524, 1524>>, <<1536, 1541>>, <<1552, 1562>>, <<1564, 1564>>, <<1600, 1600>>,
    <<1611, 1631>>, <<1648, 1648>>, <<1750, 1757>>, <<1759, 1768>>, <<1770, 1773>>,
    <<1807, 1807>>, <<1809, 1809>>, <<1840, 1866>>, <<1958, 1968>>, <<2027, 2037>>,
    <<2042, 2042>>, <<2045, 2045>>, <<2070, 2093>>, <<2137, 2139>>, <<2184, 2184>>,
    <<2192, 2193>>, <<2200, 2207>>, <<2249, 2306>>, <<2362, 2362>>, <<2364, 2364>>,
    <<2369, 2376>>, <<2381, 2381>>, <<2385, 2391>>, <<2402, 2403>>, <<2417, 2417>>,
    <<2433, 2433>>, <<2492, 2492>>, <<2497, 2500>>, <<2509, 2509>>, <<2530, 2531>>,
    <<2558, 2558>>, <<2561, 2562>>, <<2620, 2620>>, <<2625, 2626>>, <<2631, 2632>>,
    <<2635, 2637>>, <<2641, 2641>>, <<2672, 2673>>, <<2677, 2677>>, <<2689, 2690>>,
    <<2748, 2748>>, <<2753, 2757>>, <<2759, 2760>>, <<2765, 2765>>, <<2786, 2787>>,
    <<2810, 2815>>, <<2817, 2817>>, <<2876, 2876>>, <<2879, 2879>>, <<2881, 2884>>,
    <<2893, 2893>>, <<2901, 2902>>, <<2914, 2915>>, <<2946, 2946>>, <<3008, 3008>>,
    <<3021, 3021>>, <<3072, 3072>>, <<3076, 3076>>, <<3132, 3132>>, <<3134, 3136>>,
    <<3142, 3144>>, <<3146, 3149>>, <<3157, 3158>>, <<3170, 3171>>, <<3201, 3201>>,
    <<3260, 3260>>, <<3263, 3263>>, <<3270, 3270>>, <<3276, 3277>>, <<3298, 3299>>,
    <<3328, 3329>>, <<3387, 3388>>, <<3393, 3396>>, <<3405, 3405>>, <<3426, 3427>>,
    <<3457, 3457>>, <<3530, 3530>>, <<3538, 3540>>, <<3542, 3542>>, <<3633, 3633>>,
    <<3636, 3642>>, <<3654, 3662>>, <<3761, 3761>>, <<3764, 3772>>, <<3782, 3782>>,
    <<3784, 3789>>, <<3864, 3865>>, <<3893, 3893>>, <<3895, 3895>>, <<3897, 3897>>,
    <<3953, 3966>>, <<3968, 3972>>, <<3974, 3975>>, <<3981, 3991>>, <<3993, 4028>>,
    <<4038, 4038>>, <<4141, 4144>>, <<4146, 4151>>, <<4153, 4154>>, <<4157, 4158>>,
    <<4184, 4185>>, <<4190, 4192>>, <<4209, 4212>>, <<4226, 4226>>, <<4229, 4230>>,
    <<4237, 4237>>, <<4253, 4253>>, <<4348, 4348>>, <<4957, 4959>>, <<5906, 5908>>,
    <<5938, 5939>>, <<5970, 5971>>, <<6002, 6003>>, <<6068, 6069>>, <<6071, 6077>>,
    <<6086, 6086>>, <<6089, 6099>>, <<6103, 6103>>, <<6109, 6109>>, <<6155, 6159>>,
    <<6211, 6211>>, <<6277, 6278>>, <<6313, 6313>>, <<6432, 6434>>, <<6439, 6440>>,
    <<6450, 6450>>, <<6457, 6459>>, <<6679, 6680>>, <<6683, 6683>>, <<6742, 6742>>,
    <<6744, 6750>>, <<6752, 6752>>, <<6754, 6754>>, <<6757, 6764>>, <<6771, 6780>>,
    <<6783, 6783>>, <<6823, 6823>>, <<6832, 6862>>, <<6912, 6915>>, <<6964, 6964>>,
    <<6966, 6970>>, <<6972, 6972>>, <<6978, 6978>>, <<7019, 7027>>, <<7040, 7041>>,
    <<7074, 7077>>, <<7080, 7081>>, <<7083, 7085>>, <<7142, 7142>>, <<7144, 7145>>,
    <<7149, 7149>>, <<7151, 7153>>, <<7212, 7219>>, <<7222, 7223>>, <<7288, 7293>>,
    <<7376, 7378>>, <<7380, 7392>>, <<7394, 7400>>, <<7405, 7405>>, <<7412, 7412>>,
    <<7416, 7417>>, <<7468, 7530>>, <<7544, 7544>>, <<7579, 7679>>, <<8125, 8125>>,
    <<8127, 8129>>, <<8141, 8143>>, <<8157, 8159>>, <<8173, 8175>>, <<8189, 8190>>,
    <<8203, 8207>>, <<8216, 8217>>, <<8228, 8228>>, <<8231, 8231>>, <<8234, 8238>>,
    <<8288, 8292>>, <<8294, 8303>>, <<8305, 8305>>, <<8319, 8319>>, <<8336, 8348>>,
    <<8400, 8432>>, <<11388, 11389>>, <<11503, 11505>>, <<11631, 11631>>, <<11647, 11647>>,
    <<11744, 11775>>, <<11823, 11823>>, <<12293, 12293>>, <<12330, 12333>>,
    <<12337, 12341>>, <<12347, 12347>>, <<12441, 12446>>, <<12540, 12542>>,
    <<40981, 40981>>, <<42232, 42237>>, <<42508, 42508>>, <<42607, 42610>>,
    <<42612, 42621>>, <<42623, 42623>>, <<42652, 42655>>, <<42736, 42737>>,
    <<42752, 42785>>, <<42864, 42864>>, <<42888, 42890>>, <<42994, 42996>>,
    <<43000, 43001>>, <<43010, 43010>>, <<43014, 43014>>, <<43019, 43019>>,
    <<43045, 43046>>, <<43052, 43052>>, <<43204, 43205>>, <<43232, 43249>>,
    <<43263, 43263>>, <<43302, 43309>>, <<43335, 43345>>, <<43392, 43394>>,
    <<43443, 43443>>, <<43446, 43449>>, <<43452, 43453>>, <<43471, 43471>>,
    <<43493, 43494>>, <<43561, 43566>>, <<43569, 43570>>, <<43573, 43574>>,
    <<43587, 43587>>, <<43596, 43596>>, <<43632, 43632>>, <<43644, 43644>>,
    <<43696, 43696>>, <<43698, 43700>>, <<43703, 43704>>, <<43710, 43711>>,
    <<43713, 43713>>, <<43741, 43741>>, <<43756, 43757>>, <<43763, 43764>>,
    <<43766, 43766>>, <<43867, 43871>>, <<43881, 43883>>, <<44005, 44005>>,
    <<44008, 44008>>, <<44013, 44013>>, <<64286, 64286>>, <<64434, 64450>>,
    <<65024, 65039>>, <<65043, 65043>>, <<65056, 65071>>, <<65106, 65106>>,
    <<65109, 65109>>, <<65279, 65279>>, <<65287, 65287>>, <<65294, 65294>>,
    <<65306, 65306>>, <<65342, 65342>>, <<65344, 65344>>, <<65392, 65392>>,
    <<65438, 65439>>, <<65507, 65507>>, <<65529, 65531>>, <<66045, 66045>>,
    <<66272, 66272>>, <<66422, 66426>>, <<67456, 67461>>, <<67463, 67504>>,
    <<67506, 67514>>, <<68097, 68099>>, <<68101, 68102>>, <<68108, 68111>>,
    <<68152, 68154>>, <<68159, 68159>>, <<68325, 68326>>, <<68900, 68903>>,
    <<69291, 69292>>, <<69446, 69456>>, <<69506, 69509>>, <<69633, 69633>>,
    <<69688, 69702>>, <<69744, 69744>>, <<69747, 69748>>, <<69759, 69761>>,
    <<69811, 69814>>, <<69817, 69818>>, <<69821, 69821>>, <<69826, 69826>>,
    <<69837, 69837>>, <<69888, 69890>>, <<69927, 69931>>, <<69933, 69940>>,
    <<70003, 70003>>, <<70016, 70017>>, <<70070, 70078>>, <<70089, 70092>>,
    <<70095, 70095>>, <<70191, 70193>>, <<70196, 70196>>, <<70198, 70199>>,
    <<70206, 70206>>, <<70367, 70367>>, <<70371, 70378>>, <<70400, 70401>>,
    <<70459, 70460>>, <<70464, 70464>>, <<70502, 70508>>, <<70512, 70516>>,
    <<70712, 70719>>, <<70722, 70724>>, <<70726, 70726>>, <<70750, 70750>>,
    <<70835, 70840>>, <<70842, 70842>>, <<70847, 70848>>, <<70850, 70851>>,
    <<71090, 71093>>, <<71100, 71101>>, <<71103, 71104>>, <<71132, 71133>>,
    <<71219, 71226>>, <<71229, 71229>>, <<71231, 71232>>, <<71339, 71339>>,
    <<71341, 71341>>, <<71344, 71349>>, <<71351, 71351>>, <<71453, 71455>>,
    <<71458, 71461>>, <<71463, 71467>>, <<71727, 71735>>, <<71737, 71738>>,
    <<71995, 71996>>, <<71998, 71998>>, <<72003, 72003>>, <<72148, 72151>>,
    <<72154, 72155>>, <<72160, 72160>>, <<72193, 72202>>, <<72243, 72248>>,
    <<72251, 72254>>, <<72263, 72263>>, <<72273, 72278>>, <<72281, 72283>>,
    <<72330, 72342>>, <<72344, 72345>>, <<72752, 72758>>, <<72760, 72765>>,
    <<72767, 72767>>, <<72850, 72871>>, <<72874, 72880>>, <<72882, 72883>>,
    <<72885, 72886>>, <<73009, 73014>>, <<73018, 73018>>, <<73020, 73021>>,
    <<73023, 73029>>, <<73031, 73031>>, <<73104, 73105>>, <<73109, 73109>>,
    <<73111, 73111>>, <<73459, 73460>>, <<78896, 78904>>, <<92912, 92916>>,
    <<92976, 92982>>, <<92992, 92995>>, <<94031, 94031>>, <<94095, 94111>>,
    <<94176, 94177>>, <<94179, 94180>>, <<110576, 110579>>, <<110581, 110587>>,
    <<110589, 110590>>, <<113821, 113822>>, <<113824, 113827>>, <<118528, 118573>>,
    <<118576, 118598>>, <<119143, 119145>>, <<119155, 119170>>, <<119173, 119179>>,
    <<119210, 119213>>, <<119362, 119364>>, <<121344, 121398>>, <<121403, 121452>>,
    <<121461, 121461>>, <<121476, 121476>>, <<121499, 121503>>, <<121505, 121519>>,
    <<122880, 122886>>, <<122888, 122904>>, <<122907, 122913>>, <<122915, 122916>>,
    <<122918, 122922>>, <<123184, 123197>>, <<123566, 123566>>, <<123628, 123631>>,
    <<125136, 125142>>, <<125252, 125259>>, <<127995, 127999>>, <<917505, 917505>>,
    <<917536, 917631>>, <<917760, 917999>>
    >>

\* the cased characters that are not skipped (Cased and not Case_Ignorable)
CasedRanges ==
    <<
    <<65, 90>>, <<97, 122>>, <<170, 170>>, <<181, 181>>, <<186, 186>>, <<192, 214>>,
    <<216, 246>>, <<248, 442>>, <<444, 447>>, <<452, 659>>, <<661, 687>>, <<880, 883>>,
    <<886, 887>>, <<891, 893>>, <<895, 895>>, <<902, 902>>, <<904, 906>>, <<908, 908>>,
    <<910, 929>>, <<931, 1013>>, <<1015, 1153>>, <<1162, 1327>>, <<1329, 1366>>,
    <<1376, 1416>>, <<4256, 4293>>, <<4295, 4295>>, <<4301, 4301>>, <<4304, 4346>>,
    <<4349, 4351>>, <<5024, 5109>>, <<5112, 5117>>, <<7296, 7304>>, <<7312, 7354>>,
    <<7357, 7359>>, <<7424, 7467>>, <<7531, 7543>>, <<7545, 7578>>, <<7680, 7957>>,
    <<7960, 7965>>, <<7968, 8005>>, <<8008, 8013>>, <<8016, 8023>>, <<8025, 8025>>,
    <<8027, 8027>>, <<8029, 8029>>, <<8031, 8061>>, <<8064, 8116>>, <<8118, 8124>>,
    <<8126, 8126>>, <<8130, 8132>>, <<8134, 8140>>, <<8144, 8147>>, <<8150, 8155>>,
    <<8160, 8172>>, <<8178, 8180>>, <<8182, 8188>>, <<8450, 8450>>, <<8455, 8455>>,
    <<8458, 8467>>, <<8469, 8469>>, <<8473, 8477>>, <<8484, 8484>>, <<8486, 8486>>,
    <<8488, 8488>>, <<8490, 8493>>, <<8495, 8500>>, <<8505, 8505>>, <<8508, 8511>>,
    <<8517, 8521>>, <<8526, 8526>>, <<8544, 8575>>, <<8579, 8580>>, <<9398, 9449>>,
    <<11264, 11387>>, <<11390, 11492>>, <<11499, 11502>>, <<11506, 11507>>,
    <<11520, 11557>>, <<11559, 11559>>, <<11565, 11565>>, <<42560, 42605>>,
    <<42624, 42651>>, <<42786, 42863>>, <<42865, 42887>>, <<42891, 42894>>,
    <<42896, 42954>>, <<42960, 42961>>, <<42963, 42963>>, <<42965, 42969>>,
    <<42997, 42998>>, <<43002, 43002>>, <<43824, 43866>>, <<43872, 43880>>,
    <<43888, 43967>>, <<64256, 64262>>, <<64275, 64279>>, <<65313, 65338>>,
    <<65345, 65370>>, <<66560, 66639>>, <<66736, 66771>>, <<66776, 66811>>,
    <<66928, 66938>>, <<66940, 66954>>, <<66956, 66962>>, <<66964, 66965>>,
    <<66967, 66977>>, <<66979, 66993>>, <<66995, 67001>>, <<67003, 67004>>,
    <<68736, 68786>>, <<68800, 68850>>, <<71840, 71903>>, <<93760, 93823>>,
    <<119808, 119892>>, <<119894, 119964>>, <<119966, 119967>>, <<119970, 119970>>,
    <<119973, 119974>>, <<119977, 119980>>, <<119982, 119993>>, <<119995, 119995>>,
    <<119997, 120003>>, <<120005, 120069>>, <<120071, 120074>>, <<120077, 120084>>,
    <<120086, 120092>>, <<120094, 120121>>, <<120123, 120126>>, <<120128, 120132>>,
    <<120134, 120134>>, <<120138, 120144>>, <<120146, 120485>>, <<120488, 120512>>,
    <<120514, 120538>>, <<120540, 120570>>, <<120572, 120596>>, <<120598, 120628>>,
    <<120630, 120654>>, <<120656, 120686>>, <<120688, 120712>>, <<120714, 120744>>,
    <<120746, 120770>>, <<120772, 120779>>, <<122624, 122633>>, <<122635, 122654>>,
    <<125184, 125251>>, <<127280, 127305>>, <<127312, 127337>>, <<127344, 127369>>
    >>

\* the digit zero of every decimal digit block; the nine characters after a zero
\* are its digits 1 to 9
DigitZeros ==
    {
    48, 1632, 1776, 1984, 2406, 2534, 2662, 2790, 2918, 3046, 3174, 3302, 3430, 3558, 3664,
    3792, 3872, 4160, 4240, 6112, 6160, 6470, 6608, 6784, 6800, 6992, 7088, 7232, 7248,
    42528, 43216, 43264, 43472, 43504, 43600, 44016, 65296, 66720, 68912, 69734, 69872,
    69942, 70096, 70384, 70736, 70864, 71248, 71360, 71472, 71904, 72016, 72784, 73040,
    73120, 92768, 92864, 93008, 120782, 120792, 120802, 120812, 120822, 123200, 123632,
    125264, 130032
    }

(***************************************************************************)
(* str.lower()                                                             *)
(***************************************************************************)
\* the lower case of one character that maps to one character
LowerChar(c) ==
    IF c < AsciiEnd
    THEN (IF CapitalA <= c /\ c <= CapitalZ THEN c + CaseGap ELSE c)
    ELSE LET hits == {i \in DOMAIN LowerRules :
                         /\ LowerRules[i][1] <= c /\ c <= LowerRules[i][2]
                         /\ (c - LowerRules[i][1]) % LowerRules[i][3] = 0}
         IN  IF hits = {} THEN c ELSE c + LowerRules[CHOOSE i \in hits : TRUE][4]

\* the capital sigma at s[i] ends a word: the nearest character before it that is
\* not skipped is cased, and the nearest one after it (if any) is not
IsFinalSigma(s, i) ==
    LET before == {j \in 1..(i - 1) : ~InRanges(s[j], CaseIgnorableRanges)}
        after == {j \in (i + 1)..Len(s) : ~InRanges(s[j], CaseIgnorableRanges)}
    IN  /\ before # {}
        /\ InRanges(s[CHOOSE j \in before : \A k \in before : k <= j], CasedRanges)
        /\ after # {}
           => ~InRanges(s[CHOOSE j \in after : \A k \in after : j <= k], CasedRanges)

\* the lower case of s[i], one character (the dotted capital I apart)
LowerAt(s, i) ==
    IF s[i] = CapitalSigma
    THEN (IF IsFinalSigma(s, i) THEN FinalSigma ELSE SmallSigma)
    ELSE LowerChar(s[i])

\* s.lower(): the dotted capital I becomes two characters, i and a combining dot
Lower(s) ==
    LET dotted == {i \in DOMAIN s : s[i] = CapitalIDot}
        start(i) == i + Cardinality({d \in dotted : d < i})
    IN  IF dotted = {} THEN [i \in DOMAIN s |-> LowerAt(s, i)]
        ELSE [j \in 1..(Len(s) + Cardinality(dotted)) |->
                 LET i == CHOOSE k \in DOMAIN s :
                              start(k) <= j /\ (k = Len(s) \/ start(k + 1) > j)
                 IN  IF s[i] # CapitalIDot THEN LowerAt(s, i)
                     ELSE IF j = start(i) THEN SmallI ELSE CombiningDot]

(***************************************************************************)
(* strip, split, count, slicing, replace, substring                        *)
(***************************************************************************)
\* s[:n]; a negative n counts from the end
Prefix(s, n) ==
    SubSeq(s, 1, IF n >= 0 THEN Min(n, Len(s))
                 ELSE IF Len(s) + n < 0 THEN 0 ELSE Len(s) + n)

\* s without the characters of space at its two ends
StripOf(s, space) ==
    LET inked == {i \in DOMAIN s : s[i] \notin space}
    IN  IF inked = {} THEN <<>>
        ELSE LET first == CHOOSE i \in inked : \A j \in 1..(i - 1) : j \notin inked
                 last == CHOOSE i \in inked : \A j \in (i + 1)..Len(s) : j \notin inked
             IN  SubSeq(s, first, last)

\* s.strip()
Strip(s) == StripOf(s, Whitespace)

\* the k-th smallest element of a finite set of integers
Nth(S, k) == CHOOSE e \in S : Cardinality({f \in S : f < e}) = k - 1

\* s.split(sep) for a one-character separator: Cardinality(cuts) + 1 pieces
SplitOn(s, sep) ==
    LET cuts == {i \in DOMAIN s : s[i] = sep}
        bounds == cuts \cup {0, Len(s) + 1}
    IN  [k \in 1..(Cardinality(cuts) + 1) |->
            SubSeq(s, Nth(bounds, k) + 1, Nth(bounds, k + 1) - 1)]

\* set(s.split()): the maximal runs of non-whitespace characters
WordSet(s) ==
    LET starts == {i \in DOMAIN s :
                      s[i] \notin Whitespace /\ (i = 1 \/ s[i - 1] \in Whitespace)}
        stop(i) == CHOOSE j \in i..Len(s) :
                      /\ \A m \in i..j : s[m] \notin Whitespace
                      /\ (j = Len(s) \/ s[j + 1] \in Whitespace)
    IN  {SubSeq(s, i, stop(i)) : i \in starts}

\* s.count(c) for a one-character c
Count(s, c) == Cardinality({i \in DOMAIN s : s[i] = c})

\* pat in s, for texts
Contains(s, pat) ==
    \E i \in 0..(Len(s) - Len(pat)) : SubSeq(s, i + 1, i + Len(pat)) = pat

\* s.replace(pat, rep), pat non-empty: every occurrence, left to right
RECURSIVE Replace(_, _, _)
Replace(s, pat, rep) ==
    LET hits == {i \in 1..(Len(s) - Len(pat) + 1) : SubSeq(s, i, i + Len(pat) - 1) = pat}
    IN  IF hits = {} THEN s
        ELSE LET first == CHOOSE i \in hits : \A j \in hits : i <= j
             IN  SubSeq(s, 1, first - 1) \o rep
                     \o Replace(SubSeq(s, first + Len(pat), Len(s)), pat, rep)

\* str(n) for an integer n >= 0
RECURSIVE IntToText(_)
IntToText(n) ==
    IF n < 10 THEN <<DigitZero + n>>
    ELSE IntToText(n \div 10) \o <<DigitZero + (n % 10)>>

(***************************************************************************)
(* int(x)                                                                  *)
(***************************************************************************)
\* the value of a decimal digit of any script, -1 for another character
DecimalValue(c) ==
    IF \E z \in DigitZeros : z <= c /\ c <= z + 9
    THEN c - (CHOOSE z \in DigitZeros : z <= c /\ c <= z + 9)
    ELSE -1

\* the value of the digits of s at the positions sig, most significant first
RECURSIVE DigitsValue(_, _)
DigitsValue(s, sig) ==
    IF sig = {} THEN 0
    ELSE LET last == CHOOSE i \in sig : \A j \in sig : j <= i
         IN  10 * DigitsValue(s, sig \ {last}) + DecimalValue(s[last])

\* a < k and a > k for an int a and an integer k of at most SmallDigits digits
Less(a, k) == IF "digits" \in DOMAIN a THEN a.negative ELSE a.n < k
Greater(a, k) == IF "digits" \in DOMAIN a THEN ~a.negative ELSE a.n > k

\* int(s) for a text: [ok |-> FALSE] where it raises ValueError, else the int.  The
\* grammar is space* sign? digit (_? digit)* space*, at most MaxStrDigits digits;
\* int() trims the whitespace but the ASCII separators 28..31.
IntOfText(s) ==
    LET t == StripOf(s, Whitespace \ (28..31))
        signed == Len(t) > 0 /\ t[1] \in {PlusSign, MinusSign}
        body == IF signed THEN SubSeq(t, 2, Len(t)) ELSE t
        digits == {i \in DOMAIN body : DecimalValue(body[i]) >= 0}
        wellFormed ==
            /\ Len(body) > 0
            /\ \A i \in DOMAIN body : i \in digits \/ body[i] = Underscore
            /\ 1 \in digits /\ Len(body) \in digits
            /\ \A i \in 1..(Len(body) - 1) : i \in digits \/ (i + 1) \in digits
            /\ Cardinality(digits) <= MaxStrDigits
        nonzero == {i \in digits : DecimalValue(body[i]) > 0}
        sig == IF nonzero = {} THEN {}
               ELSE {i \in digits : i >= CHOOSE j \in nonzero : \A k \in nonzero : j <= k}
        kept == SelectSeq(SubSeq(body, CHOOSE j \in nonzero : \A k \in nonzero : j <= k,
                                 Len(body)),
                          LAMBDA c : c # Underscore)
        negative == signed /\ t[1] = MinusSign
    IN  IF ~wellFormed THEN [ok |-> FALSE]
        ELSE IF Cardinality(sig) > SmallDigits
        THEN [ok |-> TRUE,
              v |-> JBig(negative, [k \in DOMAIN kept |-> DecimalValue(kept[k])])]
        ELSE [ok |-> TRUE,
              v |-> JNum(IF negative THEN -DigitsValue(body, sig)
                         ELSE DigitsValue(body, sig))]

\* 'easy'
EASY ==
    <<101, 97, 115, 121>>

\* 'medium'
MEDIUM ==
    <<109, 101, 100, 105, 117, 109>>

\* 'hard'
HARD ==
    <<104, 97, 114, 100>>

\* 'expert'
EXPERT ==
    <<101, 120, 112, 101, 114, 116>>

\* '{topic}'
TOPIC ==
    <<123, 116, 111, 112, 105, 99, 125>>

\* 'What is mentioned about {topic}?'
TEasy1 ==
    <<87, 104, 97, 116, 32, 105, 115, 32, 109, 101, 110, 116, 105, 111, 110, 101, 100, 32,
      97, 98, 111, 117, 116, 32, 123, 116, 111, 112, 105, 99, 125, 63>>

\* 'According to the text, what is {topic}?'
TEasy2 ==
    <<65, 99, 99, 111, 114, 100, 105, 110, 103, 32, 116, 111, 32, 116, 104, 101, 32, 116,
      101, 120, 116, 44, 32, 119, 104, 97, 116, 32, 105, 115, 32, 123, 116, 111, 112, 105,
      99, 125, 63>>

\* 'Describe {topic} as mentioned in the document.'
TEasy3 ==
    <<68, 101, 115, 99, 114, 105, 98, 101, 32, 123, 116, 111, 112, 105, 99, 125, 32, 97,
      115, 32, 109, 101, 110, 116, 105, 111, 110, 101, 100, 32, 105, 110, 32, 116, 104,
      101, 32, 100, 111, 99, 117, 109, 101, 110, 116, 46>>

\* 'Explain the significance of {topic} in the context of the document.'
TMedium1 ==
    <<69, 120, 112, 108, 97, 105, 110, 32, 116, 104, 101, 32, 115, 105, 103, 110, 105, 102,
      105, 99, 97, 110, 99, 101, 32, 111, 102, 32, 123, 116, 111, 112, 105, 99, 125, 32,
      105, 110, 32, 116, 104, 101, 32, 99, 111, 110, 116, 101, 120, 116, 32, 111, 102, 32,
      116, 104, 101, 32, 100, 111, 99, 117, 109, 101, 110, 116, 46>>

\* 'How does {topic} relate to the main themes discussed?'
TMedium2 ==
    <<72, 111, 119, 32, 100, 111, 101, 115, 32, 123, 116, 111, 112, 105, 99, 125, 32, 114,
      101, 108, 97, 116, 101, 32, 116, 111, 32, 116, 104, 101, 32, 109, 97, 105, 110, 32,
      116, 104, 101, 109, 101, 115, 32, 100, 105, 115, 99, 117, 115, 115, 101, 100, 63>>

\* 'Analyze the role of {topic} in the given content.'
TMedium3 ==
    <<65, 110, 97, 108, 121, 122, 101, 32, 116, 104, 101, 32, 114, 111, 108, 101, 32, 111,
      102, 32, 123, 116, 111, 112, 105, 99, 125, 32, 105, 110, 32, 116, 104, 101, 32, 103,
      105, 118, 101, 110, 32, 99, 111, 110, 116, 101, 110, 116, 46>>

\* 'Critically evaluate the implications of {topic} based on the content.'
THard1 ==
    <<67, 114, 105, 116, 105, 99, 97, 108, 108, 121, 32, 101, 118, 97, 108, 117, 97, 116,
      101, 32, 116, 104, 101, 32, 105, 109, 112, 108, 105, 99, 97, 116, 105, 111, 110, 115,
      32, 111, 102, 32, 123, 116, 111, 112, 105, 99, 125, 32, 98, 97, 115, 101, 100, 32,
      111, 110, 32, 116, 104, 101, 32, 99, 111, 110, 116, 101, 110, 116, 46>>

\* 'Synthesize the information about {topic} and propose potential applications.'
THard2 ==
    <<83, 121, 110, 116, 104, 101, 115, 105, 122, 101, 32, 116, 104, 101, 32, 105, 110,
      102, 111, 114, 109, 97, 116, 105, 111, 110, 32, 97, 98, 111, 117, 116, 32, 123, 116,
      111, 112, 105, 99, 125, 32, 97, 110, 100, 32, 112, 114, 111, 112, 111, 115, 101, 32,
      112, 111, 116, 101, 110, 116, 105, 97, 108, 32, 97, 112, 112, 108, 105, 99, 97, 116,
      105, 111, 110, 115, 46>>

\* 'Compare and contrast different perspectives on {topic} presented in the text.'
THard3 ==
    <<67, 111, 109, 112, 97, 114, 101, 32, 97, 110, 100, 32, 99, 111, 110, 116, 114, 97,
      115, 116, 32, 100, 105, 102, 102, 101, 114, 101, 110, 116, 32, 112, 101, 114, 115,
      112, 101, 99, 116, 105, 118, 101, 115, 32, 111, 110, 32, 123, 116, 111, 112, 105, 99,
      125, 32, 112, 114, 101, 115, 101, 110, 116, 101, 100, 32, 105, 110, 32, 116, 104,
      101, 32, 116, 101, 120, 116, 46>>

\* 'Based on the content: '
AnswerPrefix ==
    <<66, 97, 115, 101, 100, 32, 111, 110, 32, 116, 104, 101, 32, 99, 111, 110, 116, 101,
      110, 116, 58, 32>>

\* 'Your answer shows '
FeedbackHead ==
    <<89, 111, 117, 114, 32, 97, 110, 115, 119, 101, 114, 32, 115, 104, 111, 119, 115, 32>>

\* '% similarity to the expected answer. '
FeedbackMid ==
    <<37, 32, 115, 105, 109, 105, 108, 97, 114, 105, 116, 121, 32, 116, 111, 32, 116, 104,
      101, 32, 101, 120, 112, 101, 99, 116, 101, 100, 32, 97, 110, 115, 119, 101, 114, 46,
      32>>

\* 'Good job!'
FeedbackGood ==
    <<71, 111, 111, 100, 32, 106, 111, 98, 33>>

\* 'Please review the topic and try to provide more relevant information.'
FeedbackReview ==
    <<80, 108, 101, 97, 115, 101, 32, 114, 101, 118, 105, 101, 119, 32, 116, 104, 101, 32,
      116, 111, 112, 105, 99, 32, 97, 110, 100, 32, 116, 114, 121, 32, 116, 111, 32, 112,
      114, 111, 118, 105, 100, 101, 32, 109, 111, 114, 101, 32, 114, 101, 108, 101, 118,
      97, 110, 116, 32, 105, 110, 102, 111, 114, 109, 97, 116, 105, 111, 110, 46>>

\* 'The cat sat on the mat. Dogs are loyal animals that protect their owners from danger.'
CatContent ==
    <<84, 104, 101, 32, 99, 97, 116, 32, 115, 97, 116, 32, 111, 110, 32, 116, 104, 101, 32,
      109, 97, 116, 46, 32, 68, 111, 103, 115, 32, 97, 114, 101, 32, 108, 111, 121, 97,
      108, 32, 97, 110, 105, 109, 97, 108, 115, 32, 116, 104, 97, 116, 32, 112, 114, 111,
      116, 101, 99, 116, 32, 116, 104, 101, 105, 114, 32, 111, 119, 110, 101, 114, 115, 32,
      102, 114, 111, 109, 32, 100, 97, 110, 103, 101, 114, 46>>

\* 'The cat sat on the mat'
CatSentence ==
    <<84, 104, 101, 32, 99, 97, 116, 32, 115, 97, 116, 32, 111, 110, 32, 116, 104, 101, 32,
      109, 97, 116>>

\* 'Dogs are loyal animals that protect their owners from danger'
DogSentence ==
    <<68, 111, 103, 115, 32, 97, 114, 101, 32, 108, 111, 121, 97, 108, 32, 97, 110, 105,
      109, 97, 108, 115, 32, 116, 104, 97, 116, 32, 112, 114, 111, 116, 101, 99, 116, 32,
      116, 104, 101, 105, 114, 32, 111, 119, 110, 101, 114, 115, 32, 102, 114, 111, 109,
      32, 100, 97, 110, 103, 101, 114>>

\* 'What is mentioned about The cat sat on the mat?'
CatQuestion ==
    <<87, 104, 97, 116, 32, 105, 115, 32, 109, 101, 110, 116, 105, 111, 110, 101, 100, 32,
      97, 98, 111, 117, 116, 32, 84, 104, 101, 32, 99, 97, 116, 32, 115, 97, 116, 32, 111,
      110, 32, 116, 104, 101, 32, 109, 97, 116, 63>>

\* 'According to the text, what is Dogs are loyal animals that protect their owners f?'
DogQuestion ==
    <<65, 99, 99, 111, 114, 100, 105, 110, 103, 32, 116, 111, 32, 116, 104, 101, 32, 116,
      101, 120, 116, 44, 32, 119, 104, 97, 116, 32, 105, 115, 32, 68, 111, 103, 115, 32,
      97, 114, 101, 32, 108, 111, 121, 97, 108, 32, 97, 110, 105, 109, 97, 108, 115, 32,
      116, 104, 97, 116, 32, 112, 114, 111, 116, 101, 99, 116, 32, 116, 104, 101, 105, 114,
      32, 111, 119, 110, 101, 114, 115, 32, 102, 63>>

\* 'Hi there. Exactly twenty chars. Ok'
ShortContent ==
    <<72, 105, 32, 116, 104, 101, 114, 101, 46, 32, 69, 120, 97, 99, 116, 108, 121, 32,
      116, 119, 101, 110, 116, 121, 32, 99, 104, 97, 114, 115, 46, 32, 79, 107>>

\* 'Sentence number 01 is here. Sentence number 02 is here. Sentence number 03 is here. Sentence number 04 is here. Sentence number 05 is here. Sentence number 06 is here. Sentence number 07 is here. Sentence number 08 is here. Sentence number 09 is here. Sentence number 10 is here. Sentence number 11 is here.'
ManyContent ==
    <<83, 101, 110, 116, 101, 110, 99, 101, 32, 110, 117, 109, 98, 101, 114, 32, 48, 49,
      32, 105, 115, 32, 104, 101, 114, 101, 46, 32, 83, 101, 110, 116, 101, 110, 99, 101,
      32, 110, 117, 109, 98, 101, 114, 32, 48, 50, 32, 105, 115, 32, 104, 101, 114, 101,
      46, 32, 83, 101, 110, 116, 101, 110, 99, 101, 32, 110, 117, 109, 98, 101, 114, 32,
      48, 51, 32, 105, 115, 32, 104, 101, 114, 101, 46, 32, 83, 101, 110, 116, 101, 110,
      99, 101, 32, 110, 117, 109, 98, 101, 114, 32, 48, 52, 32, 105, 115, 32, 104, 101,
      114, 101, 46, 32, 83, 101, 110, 116, 101, 110, 99, 101, 32, 110, 117, 109, 98, 101,
      114, 32, 48, 53, 32, 105, 115, 32, 104, 101, 114, 101, 46, 32, 83, 101, 110, 116,
      101, 110, 99, 101, 32, 110, 117, 109, 98, 101, 114, 32, 48, 54, 32, 105, 115, 32,
      104, 101, 114, 101, 46, 32, 83, 101, 110, 116, 101, 110, 99, 101, 32, 110, 117, 109,
      98, 101, 114, 32, 48, 55, 32, 105, 115, 32, 104, 101, 114, 101, 46, 32, 83, 101, 110,
      116, 101, 110, 99, 101, 32, 110, 117, 109, 98, 101, 114, 32, 48, 56, 32, 105, 115,
      32, 104, 101, 114, 101, 46, 32, 83, 101, 110, 116, 101, 110, 99, 101, 32, 110, 117,
      109, 98, 101, 114, 32, 48, 57, 32, 105, 115, 32, 104, 101, 114, 101, 46, 32, 83, 101,
      110, 116, 101, 110, 99, 101, 32, 110, 117, 109, 98, 101, 114, 32, 49, 48, 32, 105,
      115, 32, 104, 101, 114, 101, 46, 32, 83, 101, 110, 116, 101, 110, 99, 101, 32, 110,
      117, 109, 98, 101, 114, 32, 49, 49, 32, 105, 115, 32, 104, 101, 114, 101, 46>>

\* 'question'
KQuestion ==
    <<113, 117, 101, 115, 116, 105, 111, 110>>

\* 'correct_answer'
KCorrectAnswer ==
    <<99, 111, 114, 114, 101, 99, 116, 95, 97, 110, 115, 119, 101, 114>>

\* 'difficulty'
KDifficulty ==
    <<100, 105, 102, 102, 105, 99, 117, 108, 116, 121>>

\* 'question, correct_answer, difficulty'
KeysProse ==
    <<113, 117, 101, 115, 116, 105, 111, 110, 44, 32, 99, 111, 114, 114, 101, 99, 116, 95,
      97, 110, 115, 119, 101, 114, 44, 32, 100, 105, 102, 102, 105, 99, 117, 108, 116, 121>>

\* 'Qa?'
TextQa ==
    <<81, 97, 63>>

\* 'Aa'
TextAa ==
    <<65, 97>>

\* 'Qb?'
TextQb ==
    <<81, 98, 63>>

\* 'Ab'
TextAb ==
    <<65, 98>>

\* 'Q1'
TextQ1 ==
    <<81, 49>>

\* 'Q2'
TextQ2 ==
    <<81, 50>>

\* 'alpha beta'
TextAlphaBeta ==
    <<97, 108, 112, 104, 97, 32, 98, 101, 116, 97>>

\* 'Alpha  BETA'
TextAlphaBetaCaps ==
    <<65, 108, 112, 104, 97, 32, 32, 66, 69, 84, 65>>

\* 'alpha beta gamma'
TextAlphaBetaGamma ==
    <<97, 108, 112, 104, 97, 32, 98, 101, 116, 97, 32, 103, 97, 109, 109, 97>>

\* 'beta'
TextBeta ==
    <<98, 101, 116, 97>>

\* 'ok'
TextOk ==
    <<111, 107>>

\* 'forged'
TextForged ==
    <<102, 111, 114, 103, 101, 100>>

\* '85'
TextEightyFive ==
    <<56, 53>>

\* '2'
TextTwo ==
    <<50>>

\* '\xa0+2_0\u3000'
TextPaddedTwenty ==
    <<160, 43, 50, 95, 48, 12288>>

\* 'abc'
TextAbc ==
    <<97, 98, 99>>

\* '1234567890'
TextTenDigits ==
    <<49, 50, 51, 52, 53, 54, 55, 56, 57, 48>>

\* '\xe9cole \u03c3\u03bf\u03c6\u03cc\u03c2 i\u0307z'
TextEcole ==
    <<233, 99, 111, 108, 101, 32, 963, 959, 966, 972, 962, 32, 105, 775, 122>>

\* '\xc9COLE\u2003\u03a3\u039f\u03a6\u038c\u03a3\x1c\u0130Z'
TextEcoleCaps ==
    <<201, 67, 79, 76, 69, 8195, 931, 927, 934, 908, 931, 28, 304, 90>>

\* '\x0b\xc9cole\xa0is a French word for school\x1c.\u2003Short one\x85.'
PaddedContent ==
    <<11, 201, 99, 111, 108, 101, 160, 105, 115, 32, 97, 32, 70, 114, 101, 110, 99, 104,
      32, 119, 111, 114, 100, 32, 102, 111, 114, 32, 115, 99, 104, 111, 111, 108, 28, 46,
      8195, 83, 104, 111, 114, 116, 32, 111, 110, 101, 133, 46>>

(***************************************************************************)
(* IEEE-754 double arithmetic on positive values: int / int, the product   *)
(* with 100, int() and round(, 2).  A double is [m, e]: m its significand, *)
(* an integer of 53 bits held as limbs of 13 bits, most significant first  *)
(* (the first limb is the leading bit), and the value is m * 2^e.          *)
(***************************************************************************)
RECURSIVE BitLen(_)
BitLen(x) == IF x = 0 THEN 0 ELSE 1 + BitLen(x \div 2)

\* the value of limbs l times k, plus x: limbs again, the top limb unbounded
RECURSIVE MulAdd(_, _, _)
MulAdd(l, k, x) ==
    IF Len(l) = 1 THEN <<l[1] * k + x>>
    ELSE LET low == l[Len(l)] * k + x
         IN  MulAdd(SubSeq(l, 1, Len(l) - 1), k, low \div Limb) \o <<low % Limb>>

\* the next limb of the quotient r / n (r < n) and the remainder left
QuotLimb(r, n) ==
    LET high == (r * LimbHigh) \div n
        mid == (r * LimbHigh) % n
    IN  [q |-> high * LimbLow + (mid * LimbLow) \div n, r |-> (mid * LimbLow) % n]

\* k more limbs of the quotient r / n (r < n) after the limbs q, and the remainder left
RECURSIVE QuotLimbs(_, _, _, _)
QuotLimbs(q, r, n, k) ==
    IF k = 0 THEN [q |-> q, r |-> r]
    ELSE QuotLimbs(Append(q, QuotLimb(r, n).q), QuotLimb(r, n).r, n, k - 1)

\* the smallest s with a * 2^s >= n, for 0 < a
RECURSIVE Normalise(_, _)
Normalise(a, n) == IF a >= n THEN 0 ELSE 1 + Normalise(2 * a, n)

\* the largest t with n * 2^t <= a, for 0 < n <= a
RECURSIVE Scale(_, _)
Scale(a, n) == IF 2 * n > a THEN 0 ELSE 1 + Scale(a, 2 * n)

\* a / n for integers 0 < a, n < 2^24: the double nearest the quotient (round to
\* nearest, ties to even)
DivDouble(a, n) ==
    LET s == Normalise(a, n)
        t == IF a >= n THEN Scale(a, n) ELSE 0
        exact == QuotLimbs(<<1>>, a * 2^s - n * 2^t, n * 2^t, FracLimbs)
        odd == exact.q[Len(exact.q)] % 2 = 1
        up == 2 * exact.r > n * 2^t \/ (2 * exact.r = n * 2^t /\ odd)
    IN  [m |-> IF up THEN MulAdd(exact.q, 1, 1) ELSE exact.q, e |-> t - s - FracBits]

\* limbs p (top limb below 2^14) rounded to 53 significant bits, ties to even
RoundDouble(p) ==
    LET d == BitLen(p[1]) - 1
        last == p[Len(p)]
        low == last % 2^d
        tail2 == p[Len(p) - 1] * Limb + last
        odd == (tail2 \div 2^d) % 2 = 1
        up == d > 0 /\ (2 * low > 2^d \/ (2 * low = 2^d /\ odd))
    IN  MulAdd([i \in DOMAIN p |-> IF i = Len(p) THEN last - low ELSE p[i]], 1,
               IF up THEN 2^d ELSE 0)

\* what limb i of l adds to the integer part of l / 2^k
ShiftedLimb(l, k, i) ==
    LET offset == LimbBits * (Len(l) - i)
    IN  IF offset >= k THEN l[i] * 2^(offset - k)
        ELSE IF k - offset > 30 THEN 0
        ELSE l[i] \div 2^(k - offset)

\* the integer part of l / 2^k, from limb i on
RECURSIVE ShiftRightFrom(_, _, _)
ShiftRightFrom(l, k, i) ==
    IF i > Len(l) THEN 0 ELSE ShiftedLimb(l, k, i) + ShiftRightFrom(l, k, i + 1)

\* the integer part of l / 2^k
ShiftRight(l, k) == ShiftRightFrom(l, k, 1)

\* one of the k lowest bits of l is set
LowBitsSet(l, k) ==
    \E i \in DOMAIN l :
        /\ LimbBits * (Len(l) - i) < k
        /\ l[i] % 2^Min(k - LimbBits * (Len(l) - i), 30) # 0

\* int((c / n) * 100), 0 <= c <= n: the quotient and the product are each rounded
\* to a double, int() truncates
IntPercent(c, n) ==
    IF c = 0 THEN 0
    ELSE LET x == DivDouble(c, n)
             y == RoundDouble(MulAdd(x.m, Percent, 0))
         IN  ShiftRight(y, -x.e)

\* the double nearest h / 100, negative where neg
Hundredths(h, neg) == [t |-> "float", hundredths |-> h, negative |-> neg]

\* round(total / count, 2) for a number total and an integer count > 0: the
\* quotient is rounded to a double, which round() then rounds in decimal, ties to
\* even, on its exact binary value
Round2(total, count) ==
    LET bits == FracBitsOf(total)
        num == Numerator(total, bits)
        x == DivDouble(IF num < 0 THEN -num ELSE num, count * 2^bits)
        p == MulAdd(x.m, RoundScale, 0)
        twice == ShiftRight(p, -x.e - 1)
        sticky == LowBitsSet(p, -x.e - 1)
        floor == twice \div 2
        up == twice % 2 = 1 /\ (sticky \/ floor % 2 = 1)
    IN  IF num = 0 THEN Hundredths(0, FALSE)
        ELSE Hundredths(IF up THEN floor + 1 ELSE floor, num < 0)

\* total / count >= level for a number total, integers count > 0 and level: the
\* rounding of the quotient to a double keeps its order with an integer
AverageAtLeast(total, count, level) ==
    Numerator(total, FracBitsOf(total)) >= level * count * 2^FracBitsOf(total)

(***************************************************************************)
(* fallback_evaluation (lines 225-249), for two texts                      *)
(***************************************************************************)
Similarity(user_answer, correct_answer) ==
    LET user_words == WordSet(Lower(user_answer))
        correct_words == WordSet(Lower(correct_answer))
    IN  IF Cardinality(correct_words) = 0 THEN 0
        ELSE IntPercent(Cardinality(user_words \cap correct_words),
                        Cardinality(correct_words))

Feedback(similarity, correctness) ==
    FeedbackHead \o IntToText(similarity) \o FeedbackMid
        \o (IF correctness > GoodThreshold THEN FeedbackGood ELSE FeedbackReview)

fallback_evaluation(user_answer, correct_answer) ==
    LET similarity == Similarity(user_answer, correct_answer)
        correctness == Min(similarity + LeniencyBonus, MaxScore)
    IN  JObj([correctness_score |-> JNum(correctness),
              similarity_score |-> JNum(similarity),
              is_plagiarized |-> JBool(similarity > PlagiarismThreshold),
              is_ai_generated |-> JBool(Len(user_answer) > AiLengthThreshold
                                        /\ Count(user_answer, Comma) > AiCommaThreshold),
              feedback |-> JStr(Feedback(similarity, correctness))])

(***************************************************************************)
(* generate_fallback_questions (lines 145-177), for a text content, an     *)
(* integer num_questions and one of the three difficulties                 *)
(***************************************************************************)
templates(difficulty) ==
    CASE difficulty = EASY -> <<TEasy1, TEasy2, TEasy3>>
      [] difficulty = MEDIUM -> <<TMedium1, TMedium2, TMedium3>>
      [] difficulty = HARD -> <<THard1, THard2, THard3>>

\* a variant that counts only the characters that are not whitespace
SentenceQualifiesInked(s) ==
    Cardinality({i \in DOMAIN s : s[i] \notin Whitespace}) > MinSentenceLen

\* line 147: len(s.strip()) > 20
SentenceQualifies(s) == Len(Strip(s)) > MinSentenceLen

\* [s.strip() for s in content.split('.') if len(s.strip()) > 20][:10]
Sentences(content) ==
    LET pieces == SplitOn(content, Period)
        kept == {k \in DOMAIN pieces : SentenceQualifies(pieces[k])}
    IN  [i \in 1..Min(Cardinality(kept), MaxSentences) |-> Strip(pieces[Nth(kept, i)])]

generate_fallback_questions(content, num_questions, difficulty) ==
    LET sentences == Sentences(content)
        bank == templates(difficulty)
    IN  [i \in 1..Min(num_questions, Len(sentences)) |->
            JObj([question |->
                      JStr(Replace(bank[((i - 1) % Len(bank)) + 1], TOPIC,
                                   Prefix(sentences[i], TopicLen))),
                  correct_answer |-> JStr(AnswerPrefix \o sentences[i]),
                  difficulty |-> JStr(difficulty)])]

(***************************************************************************)
(* The remote collaborator.  A call either raises or returns a text; the   *)
(* text is a sequence of tokens: a code fence ```, the tag json, a run of  *)
(* whitespace, prose that is not JSON, or the text of one JSON value.      *)
(***************************************************************************)
Fence == [tok |-> "fence"]
Tag == [tok |-> "tag"]
Space == [tok |-> "ws"]
Prose == [tok |-> "prose"]
Val(v) == [tok |-> "value", v |-> v]

Raises == [raised |-> TRUE]
Returns(text) == [raised |-> FALSE, text |-> text]

\* text.strip(), on tokens
StripTokens(text) ==
    LET inked == {i \in DOMAIN text : text[i] # Space}
    IN  IF inked = {} THEN <<>>
        ELSE SubSeq(text, CHOOSE i \in inked : \A j \in inked : i <= j,
                          CHOOSE i \in inked : \A j \in inked : j <= i)

\* the text without its leading whitespace
DropLeadingSpace(text) ==
    LET inked == {i \in DOMAIN text : text[i] # Space}
    IN  IF inked = {} THEN <<>>
        ELSE SubSeq(text, CHOOSE i \in inked : \A j \in inked : i <= j, Len(text))

\* the text without its trailing whitespace
DropTrailingSpace(text) ==
    LET inked == {i \in DOMAIN text : text[i] # Space}
    IN  IF inked = {} THEN <<>>
        ELSE SubSeq(text, 1, CHOOSE i \in inked : \A j \in inked : j <= i)

\* lines 121-126: strip(), then the three re.sub calls
CleanResponse(text) ==
    LET t0 == StripTokens(text)
        t1 == IF Len(t0) >= 2 /\ t0[1] = Fence /\ t0[2] = Tag
              THEN DropLeadingSpace(SubSeq(t0, 3, Len(t0))) ELSE t0
        t2 == IF Len(t1) >= 1 /\ t1[1] = Fence
              THEN DropLeadingSpace(SubSeq(t1, 2, Len(t1))) ELSE t1
    IN  IF Len(t2) >= 1 /\ t2[Len(t2)] = Fence
        THEN DropTrailingSpace(SubSeq(t2, 1, Len(t2) - 1)) ELSE t2

\* json.loads(text): one JSON value, whitespace around it allowed
Parses(text) == LET t == StripTokens(text) IN Len(t) = 1 /\ t[1].tok = "value"

ParsedValue(text) == StripTokens(text)[1].v

(***************************************************************************)
(* generate_questions_with_claude (lines 82-143)                           *)
(***************************************************************************)
RequiredKeys == {"question", "correct_answer", "difficulty"}

KeyText(key) ==
    CASE key = "question" -> KQuestion
      [] key = "correct_answer" -> KCorrectAnswer
      [] key = "difficulty" -> KDifficulty

\* key in q: a dict key, a list member, a substring; TypeError (FALSE here, the
\* caller's except covers both) for a value that is no container
KeyIn(key, q) ==
    CASE q.t = "obj" -> key \in DOMAIN q.o
      [] q.t = "list" -> \E i \in DOMAIN q.l : q.l[i] = JStr(KeyText(key))
      [] q.t = "str" -> Contains(q.s, KeyText(key))
      [] OTHER -> FALSE

\* line 135, for one element
ValidQuestion(q) == \A key \in RequiredKeys : KeyIn(key, q)

\* lines 114-136 reach the return of line 138
PrimaryPath(reply) ==
    /\ ~reply.raised
    /\ Parses(CleanResponse(reply.text))
    /\ ParsedValue(CleanResponse(reply.text)).t = "list"
    /\ \A i \in DOMAIN ParsedValue(CleanResponse(reply.text)).l :
           ValidQuestion(ParsedValue(CleanResponse(reply.text)).l[i])

\* lines 86-112 raise before the remote call: content[:4000] of a value that is
\* neither text nor list (TypeError), or a difficulty the guidance table lacks
\* (KeyError; TypeError for an unhashable one); "" where the prompt is built
PromptError(content, difficulty) ==
    IF content.t \notin {"str", "list"} THEN "TypeError"
    ELSE IF difficulty \in {JStr(EASY), JStr(MEDIUM), JStr(HARD)} THEN ""
    ELSE IF difficulty.t \in {"list", "obj"} THEN "TypeError"
    ELSE "KeyError"

\* line 143 raises out of the except branch: content.split of a value that is no
\* text (AttributeError)
GenerationRaises(content, reply) == ~PrimaryPath(reply) /\ content.t # "str"

\* the value returned, for values content and difficulty and an integer
\* num_questions, where nothing above raises
generate_questions_with_claude(content, num_questions, difficulty, reply) ==
    IF PrimaryPath(reply)
    THEN Prefix(ParsedValue(CleanResponse(reply.text)).l, num_questions)
    ELSE generate_fallback_questions(content.s, num_questions, difficulty.s)

(***************************************************************************)
(* evaluate_answer_with_claude (lines 179-223)                             *)
(***************************************************************************)
RemoteEvaluation(reply) == ~reply.raised /\ Parses(CleanResponse(reply.text))

\* line 223 raises out of the except branch: .lower() of a value that is no text
\* (AttributeError)
EvaluationRaises(correct_answer, user_answer, reply) ==
    ~RemoteEvaluation(reply) /\ (user_answer.t # "str" \/ correct_answer.t # "str")

\* the value returned, for values question, correct_answer and user_answer, where
\* nothing above raises
evaluate_answer_with_claude(question, correct_answer, user_answer, reply) ==
    IF RemoteEvaluation(reply)
    THEN ParsedValue(CleanResponse(reply.text))
    ELSE fallback_evaluation(user_answer.s, correct_answer.s)

(***************************************************************************)
(* The request handlers.  A handler runs until it blocks in the remote     *)
(* call; the reply resumes it.  log records every remote invocation and    *)
(* every return of an orchestrator with the value returned, in order.  The *)
(* request body is a JSON object; a 500 response carries the class of the  *)
(* exception in place of its message.                                      *)
(***************************************************************************)
Invoke(i, prompt) == [ev |-> "invoke", i |-> i, prompt |-> prompt]
Return(i, fellBack, value) ==
    [ev |-> "return", i |-> i, fallback |-> fellBack, value |-> value]

ErrorResponse(status, message) == [status |-> status, error |-> message]

\* int(x) of line 309: [ok |-> FALSE] where it raises
IntOf(v) ==
    CASE v.t = "str" -> IntOfText(v.s)
      [] IsNumber(v) -> [ok |-> TRUE, v |-> JNum(Truncated(v))]
      [] OTHER -> [ok |-> FALSE]

\* lines 308-310
Content(d) == Get(d, "content", JStr(<<>>))
NumQuestions(d) == IntOf(Get(d, "num_questions", JNum(DefaultQuestions))).v
Difficulty(d) == Get(d, "difficulty", JStr(MEDIUM))

\* line 309 raises: "" where it does not, else the class of the exception
CoercionError(d) ==
    IF IntOf(Get(d, "num_questions", JNum(DefaultQuestions))).ok THEN ""
    ELSE IF Get(d, "num_questions", JNum(DefaultQuestions)).t = "str" THEN "ValueError"
    ELSE "TypeError"

Difficulties == {JStr(EASY), JStr(MEDIUM), JStr(HARD)}

\* a variant without the upper limit on num_questions
GenerateErrorNoUpperLimit(d) ==
    IF ~Truthy(Content(d)) THEN "No content provided"
    ELSE IF Less(NumQuestions(d), MinQuestions)
         THEN "Number of questions must be between 1 and 20"
         ELSE IF Difficulty(d) \notin Difficulties THEN "Invalid difficulty level"
              ELSE ""

\* lines 312-319: the message of the 400 response, "" for a request that passes
GenerateError(d) ==
    IF ~Truthy(Content(d)) THEN "No content provided"
    ELSE IF Less(NumQuestions(d), MinQuestions) \/ Greater(NumQuestions(d), MaxQuestions)
         THEN "Number of questions must be between 1 and 20"
         ELSE IF Difficulty(d) \notin Difficulties THEN "Invalid difficulty level"
              ELSE ""

\* lines 92-112: what the prompt carries of the arguments
GeneratePrompt(d) ==
    [content |-> IF Content(d).t = "str"
                 THEN JStr(Prefix(Content(d).s, PromptContentLen))
                 ELSE JList(Prefix(Content(d).l, PromptContentLen)),
     num_questions |-> NumQuestions(d),
     difficulty |-> Difficulty(d)]

\* lines 304-322, up to the remote call of line 115
generate_questions(d) ==
    /\ pc = "idle"
    /\ op' = "generate"
    /\ data' = d
    /\ IF CoercionError(d) # ""
       THEN /\ pc' = "done"
            /\ out' = ErrorResponse(500, CoercionError(d))
            /\ log' = log
       ELSE IF GenerateError(d) # ""
       THEN /\ pc' = "done"
            /\ out' = ErrorResponse(400, GenerateError(d))
            /\ log' = log
       ELSE IF PromptError(Content(d), Difficulty(d)) # ""
       THEN /\ pc' = "done"
            /\ out' = ErrorResponse(500, PromptError(Content(d), Difficulty(d)))
            /\ log' = log
       ELSE /\ pc' = "gen_wait"
            /\ out' = out
            /\ log' = Append(log, Invoke(0, GeneratePrompt(d)))
    /\ UNCHANGED <<replies, idx, results, total_score, total_time>>

\* lines 121-143 and 324-331
RemoteReplyGenerate(reply) ==
    /\ pc = "gen_wait"
    /\ IF GenerationRaises(Content(data), reply)
       THEN /\ out' = ErrorResponse(500, "AttributeError")
            /\ log' = log
       ELSE \E questions \in {generate_questions_with_claude(
                                   Content(data), NumQuestions(data).n, Difficulty(data),
                                   reply)} :
                /\ out' = [status |-> 200,
                           body |-> [success |-> TRUE,
                                     questions |-> questions,
                                     total_questions |-> Len(questions)]]
                /\ log' = Append(log, Return(0, ~PrimaryPath(reply), questions))
    /\ replies' = Append(replies, reply)
    /\ pc' = "done"
    /\ UNCHANGED <<op, data, idx, results, total_score, total_time>>

\* line 338
Submissions(d) == Get(d, "submissions", JList(<<>>))

\* the submission of iteration i, for a list
SubmissionAt(d, i) == Submissions(d).l[i]

\* len(submissions), for a list
BatchSize(d) == Len(Submissions(d).l)

\* lines 347-351 raise in iteration i: "" where they do not, else the class of the
\* exception.  A text yields its characters and a dict its keys, which have no
\* .get, as an element that is no dict has none; another value cannot be iterated.
SubmissionError(d, i) ==
    IF Submissions(d).t \in {"str", "obj"} THEN "AttributeError"
    ELSE IF Submissions(d).t # "list" THEN "TypeError"
    ELSE IF SubmissionAt(d, i).t # "obj" THEN "AttributeError"
    ELSE ""

\* lines 348-351
SubmissionFields(submission) ==
    [question |-> Get(submission.o, "question", JStr(<<>>)),
     user_answer |-> Get(submission.o, "user_answer", JStr(<<>>)),
     correct_answer |-> Get(submission.o, "correct_answer", JStr(<<>>)),
     time_taken |-> Get(submission.o, "time_taken", JNum(0))]

\* lines 183-203: what the prompt carries of the arguments
EvaluatePrompt(submission) ==
    [question |-> SubmissionFields(submission).question,
     correct_answer |-> SubmissionFields(submission).correct_answer,
     user_answer |-> SubmissionFields(submission).user_answer]

\* line 354 raises
EvaluationError(submission, reply) ==
    IF EvaluationRaises(SubmissionFields(submission).correct_answer,
                        SubmissionFields(submission).user_answer, reply)
    THEN "AttributeError" ELSE ""

\* line 354
Evaluation(submission, reply) ==
    evaluate_answer_with_claude(SubmissionFields(submission).question,
                                SubmissionFields(submission).correct_answer,
                                SubmissionFields(submission).user_answer, reply)

\* lines 356-362: {**fields, **evaluation}
Result(submission, evaluation) == Merge(SubmissionFields(submission), evaluation.o)

\* line 365: what the evaluation adds to total_score
Score(evaluation) == Get(evaluation.o, "correctness_score", JNum(0))

\* lines 361, 365 and 366 raise TypeError: ** of a value that is no dict, + of a
\* value that is no number
Unmergeable(evaluation) == evaluation.t # "obj"
Unaddable(evaluation) == ~IsNumber(Score(evaluation))
Untimed(submission) == ~IsNumber(SubmissionFields(submission).time_taken)

\* line 371
PerformanceLevel(total, count) ==
    IF AverageAtLeast(total, count, ExcellentThreshold) THEN "Excellent"
    ELSE IF AverageAtLeast(total, count, GoodLevelThreshold) THEN "Good"
         ELSE "Needs Improvement"

\* lines 368-383
Summary(all, total, time, count) ==
    [total_questions |-> count,
     average_score |-> Round2(total, count),
     total_time |-> time,
     performance_level |-> PerformanceLevel(total, count),
     plagiarism_detected |->
         \E i \in DOMAIN all : Truthy(Get(all[i], "is_plagiarized", JBool(FALSE))),
     ai_generated_detected |->
         \E i \in DOMAIN all : Truthy(Get(all[i], "is_ai_generated", JBool(FALSE)))]

\* lines 335-354, up to the first remote call.  idx counts the elements the loop of
\* line 347 has fetched: a text, a dict and a list yield their first element before
\* line 348 raises on it, another value raises in the for statement itself.
evaluate_answers(d) ==
    /\ pc = "idle"
    /\ op' = "evaluate"
    /\ data' = d
    /\ IF ~Truthy(Submissions(d))
       THEN /\ pc' = "done"
            /\ out' = ErrorResponse(400, "No submissions provided")
            /\ UNCHANGED <<log, idx>>
       ELSE IF SubmissionError(d, 1) # ""
       THEN /\ pc' = "done"
            /\ out' = ErrorResponse(500, SubmissionError(d, 1))
            /\ log' = log
            /\ idx' = IF Submissions(d).t \in {"str", "obj", "list"} THEN 1 ELSE 0
       ELSE /\ pc' = "eval_wait"
            /\ out' = out
            /\ idx' = 1
            /\ log' = Append(log, Invoke(1, EvaluatePrompt(SubmissionAt(d, 1))))
    /\ UNCHANGED <<replies, results, total_score, total_time>>

\* lines 212-223 and 356-366 for submission idx, then the next iteration up to its
\* remote call, or lines 368-387
RemoteReplyEvaluate(reply) ==
    /\ pc = "eval_wait"
    /\ replies' = Append(replies, reply)
    /\ \E submission \in {SubmissionAt(data, idx)} :
       IF EvaluationError(submission, reply) # ""
       THEN /\ pc' = "done"
            /\ out' = ErrorResponse(500, EvaluationError(submission, reply))
            /\ UNCHANGED <<log, idx, results, total_score, total_time>>
       ELSE \E evaluation \in {Evaluation(submission, reply)} :
            \E returned \in {Append(log, Return(idx, ~RemoteEvaluation(reply),
                                                evaluation))} :
            IF Unmergeable(evaluation)
            THEN /\ pc' = "done"
                 /\ out' = ErrorResponse(500, "TypeError")
                 /\ log' = returned
                 /\ UNCHANGED <<idx, results, total_score, total_time>>
            ELSE IF Unaddable(evaluation)
            THEN /\ pc' = "done"
                 /\ out' = ErrorResponse(500, "TypeError")
                 /\ log' = returned
                 /\ results' = Append(results, Result(submission, evaluation))
                 /\ UNCHANGED <<idx, total_score, total_time>>
            ELSE IF Untimed(submission)
            THEN /\ pc' = "done"
                 /\ out' = ErrorResponse(500, "TypeError")
                 /\ log' = returned
                 /\ results' = Append(results, Result(submission, evaluation))
                 /\ total_score' = Add(total_score, Score(evaluation))
                 /\ UNCHANGED <<idx, total_time>>
            ELSE /\ results' = Append(results, Result(submission, evaluation))
                 /\ total_score' = Add(total_score, Score(evaluation))
                 /\ total_time' = Add(total_time, SubmissionFields(submission).time_taken)
                 /\ IF idx < BatchSize(data) /\ SubmissionError(data, idx + 1) # ""
                    THEN /\ pc' = "done"
                         /\ out' = ErrorResponse(500, SubmissionError(data, idx + 1))
                         /\ log' = returned
                         /\ idx' = idx + 1
                    ELSE IF idx < BatchSize(data)
                    THEN /\ idx' = idx + 1
                         /\ log' = Append(returned,
                                          Invoke(idx + 1,
                                                 EvaluatePrompt(SubmissionAt(data, idx + 1))))
                         /\ pc' = "eval_wait"
                         /\ out' = out
                    ELSE /\ idx' = idx
                         /\ log' = returned
                         /\ pc' = "done"
                         /\ out' = [status |-> 200,
                                    body |-> [success |-> TRUE,
                                              results |-> results',
                                              summary |-> Summary(results', total_score',
                                                                  total_time',
                                                                  BatchSize(data))]]
    /\ UNCHANGED <<op, data>>
(***************************************************************************)
(* The requests and the remote behaviours the model draws.                 *)
(***************************************************************************)
\* one sentence longer than the prompt's cut of the content
LongContent == [i \in 1..(PromptContentLen + 10) |-> SmallA] \o <<Period>>

Contents ==
    {JStr(<<>>), JStr(CatContent), JStr(ShortContent), JStr(ManyContent),
     JStr(LongContent), JStr(PaddedContent), JList(<<JStr(CatContent)>>), JNum(7)}

\* 0, 1, 2, 20, 21, "2", a padded "+2_0", "abc", "1234567890", true, 2.5, null
QuestionCounts ==
    {JNum(0), JNum(1), JNum(2), JNum(MaxQuestions), JNum(MaxQuestions + 1),
     JStr(TextTwo), JStr(TextPaddedTwenty), JStr(TextAbc), JStr(TextTenDigits),
     JBool(TRUE), JFloat(5, 1),
     JNull}

DifficultyChoices == {JStr(EASY), JStr(MEDIUM), JStr(HARD), JStr(EXPERT), JNum(1)}

GenerateKeySets == {{"content", "num_questions", "difficulty"}, {"content"},
                    {"num_questions", "difficulty"}}

GenerateRequests ==
    {[k \in keys |-> CASE k = "content" -> c
                       [] k = "num_questions" -> n
                       [] k = "difficulty" -> d] :
        keys \in GenerateKeySets, c \in Contents, n \in QuestionCounts,
        d \in DifficultyChoices}

Question(q, a, d) == JObj([question |-> JStr(q), correct_answer |-> JStr(a),
                           difficulty |-> JStr(d)])
QuestionA == Question(TextQa, TextAa, EASY)
QuestionB == Question(TextQb, TextAb, EASY)
QuestionHard == Question(TextQb, TextAb, HARD)
QuestionBlank == Question(<<>>, <<>>, EASY)
QuestionNoDifficulty == JObj([question |-> JStr(TextQa), correct_answer |-> JStr(TextAa)])

GenerateReplies ==
    {Raises,
     Returns(<<Prose>>),
     Returns(<<Fence, Tag, Space, Val(JList(<<QuestionA, QuestionB, QuestionHard>>)),
               Space, Fence>>),
     Returns(<<Space, Val(JList(<<QuestionA, QuestionB>>)), Space>>),
     Returns(<<Val(JList(<<QuestionA>>))>>),
     Returns(<<Val(JList(<<>>))>>),
     Returns(<<Val(JList([i \in 1..(MaxQuestions + 1) |-> QuestionA]))>>),
     Returns(<<Fence, Space, Val(JList(<<QuestionA, QuestionNoDifficulty>>)), Space, Fence>>),
     Returns(<<Val(JList(<<QuestionBlank>>))>>),
     Returns(<<Val(QuestionA)>>),
     Returns(<<Val(JList(<<JNum(1)>>))>>),
     Returns(<<Val(JList(<<JStr(KeysProse)>>))>>),
     Returns(<<Val(JList(<<JList(<<JStr(KQuestion), JStr(KCorrectAnswer),
                                   JStr(KDifficulty)>>)>>))>>),
     Returns(<<Fence, Space, Tag, Space, Val(JList(<<QuestionA>>)), Space, Fence>>)}

\* the last three: accented and Greek capitals with a time of 2.5, an answer that
\* is no text with a time that is no number, a submission that is no dict
SubmissionChoices ==
    {JObj([question |-> JStr(TextQ1), correct_answer |-> JStr(TextAlphaBeta),
           user_answer |-> JStr(TextAlphaBetaCaps), time_taken |-> JNum(5)]),
     JObj([question |-> JStr(TextQ2), correct_answer |-> JStr(TextAlphaBetaGamma),
           user_answer |-> JStr(TextBeta)]),
     JObj(<<>>),
     JObj([question |-> JStr(TextQ1), correct_answer |-> JStr(TextEcole),
           user_answer |-> JStr(TextEcoleCaps), time_taken |-> JFloat(5, 1)]),
     JObj([question |-> JNum(1), user_answer |-> JNum(5), time_taken |-> JStr(TextTwo)]),
     JStr(TextAbc)}

Batches == UNION {[1..n -> SubmissionChoices] : n \in 0..MaxBatch}

EvaluateRequests ==
    {[submissions |-> JList(b)] : b \in Batches}
        \cup {<<>>, [submissions |-> JStr(TextAbc)], [submissions |-> JNum(3)],
              [submissions |-> JObj([question |-> JStr(TextQ1)])],
              [submissions |-> JNull]}

FullEvaluation(score) ==
    JObj([correctness_score |-> score, similarity_score |-> JNum(75),
          is_plagiarized |-> JBool(FALSE), is_ai_generated |-> JBool(TRUE),
          feedback |-> JStr(TextOk)])

\* the third scores 85, the last 85.5
EvaluateReplies ==
    {Raises,
     Returns(<<Prose>>),
     Returns(<<Fence, Tag, Space, Val(FullEvaluation(JNum(85))), Space, Fence>>),
     Returns(<<Val(JObj([similarity_score |-> JNum(50), feedback |-> JStr(TextOk)]))>>),
     Returns(<<Val(JObj([correctness_score |-> JNum(60), question |-> JStr(TextForged),
                         time_taken |-> JNum(99)]))>>),
     Returns(<<Val(FullEvaluation(JStr(TextEightyFive)))>>),
     Returns(<<Val(JList(<<JNum(85)>>))>>),
     Returns(<<Val(JNum(85))>>),
     Returns(<<Val(FullEvaluation(JFloat(171, 1)))>>)}

\* the i-th word of the scoring vocabulary, two letters
Word(i) == <<SmallA + ((i - 1) \div 26), SmallA + ((i - 1) % 26)>>

\* the words 1..n joined by gap (a text)
Joined(n, gap) ==
    [j \in 1..(n * (2 + Len(gap)) - (IF n = 0 THEN 0 ELSE Len(gap))) |->
        LET pos == (j - 1) % (2 + Len(gap))
        IN  IF pos < 2 THEN Word(((j - 1) \div (2 + Len(gap))) + 1)[pos + 1]
            ELSE gap[pos - 1]]

\* s.upper() for a text of ASCII letters and separators
Upper(s) ==
    [i \in DOMAIN s |-> IF SmallA <= s[i] /\ s[i] <= SmallZ THEN s[i] - CaseGap ELSE s[i]]

\* the (user_answer, correct_answer) pairs the scoring specification draws: a
\* reference of n distinct words and an answer of the first c words, in three
\* spellings: single spaces; capitals, tab and space against space and newline;
\* commas and no-break spaces
ScoringInputs(n, c) ==
    {[user_answer |-> Joined(c, <<32>>), correct_answer |-> Joined(n, <<32>>)],
     [user_answer |-> Upper(Joined(c, <<9, 32>>)),
      correct_answer |-> Joined(n, <<32, 10>>)],
     [user_answer |-> Joined(c, <<Comma, 160, 32>>), correct_answer |-> Joined(n, <<32>>)]}

(***************************************************************************)
(* The service: one request, handled to its response.                      *)
(***************************************************************************)
Init ==
    /\ pc = "idle"
    /\ op = "none"
    /\ data = <<>>
    /\ log = <<>>
    /\ replies = <<>>
    /\ idx = 0
    /\ results = <<>>
    /\ total_score = JNum(0)
    /\ total_time = JNum(0)
    /\ out = <<>>

Next ==
    \/ \E d \in GenerateRequests : generate_questions(d)
    \/ \E reply \in GenerateReplies : RemoteReplyGenerate(reply)
    \/ \E d \in EvaluateRequests : evaluate_answers(d)
    \/ \E reply \in EvaluateReplies : RemoteReplyEvaluate(reply)

Spec == Init /\ [][Next]_vars

(***************************************************************************)
(* fallback_evaluation on its own, over ScoringInputs.                     *)
(***************************************************************************)
InitScore ==
    /\ pc = "idle"
    /\ op = "score"
    /\ \E n \in 0..MaxWords, c \in 0..MaxWords : data \in ScoringInputs(n, c)
    /\ log = <<>>
    /\ replies = <<>>
    /\ idx = 0
    /\ results = <<>>
    /\ total_score = JNum(0)
    /\ total_time = JNum(0)
    /\ out = <<>>

Score_fallback_evaluation ==
    /\ pc = "idle"
    /\ op = "score"
    /\ out' = fallback_evaluation(data.user_answer, data.correct_answer)
    /\ pc' = "done"
    /\ UNCHANGED <<op, data, log, replies, idx, results, total_score, total_time>>

NextScore == Score_fallback_evaluation

SpecScore == InitScore /\ [][NextScore]_vars

(***************************************************************************)
(* Properties.                                                             *)
(***************************************************************************)
Handled(which) == pc = "done" /\ op = which

\* a generate-questions request with non-empty content, a count in 1..20 and a
\* recognised difficulty
ValidGenerateRequest(d) ==
    /\ Content(d).t = "str" /\ Len(Content(d).s) > 0
    /\ CoercionError(d) = ""
    /\ ~Less(NumQuestions(d), MinQuestions) /\ ~Greater(NumQuestions(d), MaxQuestions)
    /\ Difficulty(d) \in {JStr(EASY), JStr(MEDIUM), JStr(HARD)}

\* a generate-questions request with empty content, a count that is no integer of
\* 1..20, or an unrecognised difficulty
InvalidGenerateRequest(d) ==
    \/ ~Truthy(Content(d))
    \/ CoercionError(d) # ""
    \/ Less(NumQuestions(d), MinQuestions) \/ Greater(NumQuestions(d), MaxQuestions)
    \/ Difficulty(d) \notin {JStr(EASY), JStr(MEDIUM), JStr(HARD)}

\* an evaluate-answers request with a non-empty list of submissions, each a dict
\* whose answers are texts and whose time is a number
WellTypedBatch(d) ==
    /\ Submissions(d).t = "list" /\ Len(Submissions(d).l) > 0
    /\ \A i \in DOMAIN Submissions(d).l :
           /\ Submissions(d).l[i].t = "obj"
           /\ SubmissionFields(Submissions(d).l[i]).user_answer.t = "str"
           /\ SubmissionFields(Submissions(d).l[i]).correct_answer.t = "str"
           /\ IsNumber(SubmissionFields(Submissions(d).l[i]).time_taken)

\* a JSON object carrying the three keys of a question
KeyedObject(q) == q.t = "obj" /\ RequiredKeys \subseteq DOMAIN q.o

\* the remote call returned a text that parses as a list of such objects
ListOfKeyedObjects(reply) ==
    /\ ~reply.raised
    /\ Parses(CleanResponse(reply.text))
    /\ ParsedValue(CleanResponse(reply.text)).t = "list"
    /\ \A i \in DOMAIN ParsedValue(CleanResponse(reply.text)).l :
           KeyedObject(ParsedValue(CleanResponse(reply.text)).l[i])

NonEmptyText(v) == v.t = "str" /\ Len(v.s) > 0

WellFormedQuestion(q, difficulty) ==
    /\ KeyedObject(q)
    /\ NonEmptyText(q.o.question)
    /\ NonEmptyText(q.o.correct_answer)
    /\ q.o.difficulty = JStr(difficulty)

\* C1: a generation that returns through the primary path (the reply parsed as a
\* list whose elements all carry question, correct_answer and difficulty) returns
\* exactly num_questions questions, each with a non-empty question, a non-empty
\* correct_answer and the requested difficulty.
C1_PrimaryPathExactCount ==
    (Handled("generate") /\ ValidGenerateRequest(data) /\ replies # <<>>
        /\ ListOfKeyedObjects(replies[1]))
    => /\ out.status = 200
       /\ Len(out.body.questions) = NumQuestions(data).n
       /\ \A i \in DOMAIN out.body.questions :
              WellFormedQuestion(out.body.questions[i], Difficulty(data).s)

\* C2: for a valid request generation never raises, and whenever the remote call
\* fails or its text is unparseable, is not a list, or has an element that lacks
\* one of the three keys, the value returned is exactly
\* generate_fallback_questions on the untruncated arguments.
C2_FallbackOnEveryBadReply ==
    (Handled("generate") /\ ValidGenerateRequest(data))
    => /\ out.status = 200
       /\ ~ListOfKeyedObjects(replies[1])
          => out.body.questions =
                 generate_fallback_questions(Content(data).s, NumQuestions(data).n,
                                             Difficulty(data).s)

EvaluationKeys ==
    {"correctness_score", "similarity_score", "is_plagiarized", "is_ai_generated",
     "feedback"}

\* C3: every evaluation evaluate_answer_with_claude returns carries all five keys,
\* whichever path produced it.
C3_EvaluationFullyPopulated ==
    op = "evaluate"
    => \A i \in DOMAIN log :
           log[i].ev = "return"
           => log[i].value.t = "obj" /\ EvaluationKeys \subseteq DOMAIN log[i].value.o

\* C4: a non-empty batch ends in the success payload with results and summary,
\* whatever the remote collaborator did or returned.
C4_BatchAlwaysSucceeds ==
    (Handled("evaluate") /\ WellTypedBatch(data))
    => out.status = 200 /\ {"results", "summary"} \subseteq DOMAIN out.body

CatRequest ==
    [content |-> JStr(CatContent), num_questions |-> JNum(2), difficulty |-> JStr(EASY)]

CatScenario == Handled("generate") /\ data = CatRequest /\ replies = <<Raises>>

\* C5 as stated: in the cat-and-dog scenario with the remote collaborator
\* unavailable, generation returns exactly 1 question, built from the second
\* sentence with the easy template bank.
C5_OneQuestion ==
    CatScenario
    => /\ Len(out.body.questions) = 1
       /\ out.body.questions[1].o.correct_answer = JStr(AnswerPrefix \o DogSentence)
       /\ out.body.questions[1].o.difficulty = JStr(EASY)

\* C5 as amended: in that scenario generation returns exactly 2 questions, the first
\* built from the first sentence with the first easy template and the second from
\* the second sentence (topic cut to 50 characters) with the second easy template:
\* both sentences have a trimmed length above 20 (22 and 60).
C5_TwoQuestions ==
    CatScenario
    => out.body.questions =
           <<Question(CatQuestion, AnswerPrefix \o CatSentence, EASY),
             Question(DogQuestion, AnswerPrefix \o DogSentence, EASY)>>

C5_Witness == CatScenario /\ out.status = 200 /\ Len(out.body.questions) = 2

\* the sum of the numbers f[x], x in S
RECURSIVE SumOver(_, _)
SumOver(f, S) ==
    IF S = {} THEN JNum(0)
    ELSE LET x == CHOOSE y \in S : TRUE IN Add(f[x], SumOver(f, S \ {x}))

\* C6: the summary's average_score is the arithmetic mean of the correctness_score
\* values the entries of results carry, rounded to 2 decimals.
C6_AverageIsMeanOfResults ==
    (Handled("evaluate") /\ out.status = 200)
    => LET entries == out.body.results
           carrying == {i \in DOMAIN entries :
                           /\ "correctness_score" \in DOMAIN entries[i]
                           /\ IsNumber(entries[i].correctness_score)}
           scores == [i \in carrying |-> entries[i].correctness_score]
       IN  carrying # {}
           => out.body.summary.average_score =
                  Round2(SumOver(scores, carrying), Cardinality(carrying))

\* the request ended in an error response and nothing else was done
Rejected ==
    /\ pc = "done"
    /\ DOMAIN out = {"status", "error"}
    /\ out.status \in {400, 500}
    /\ log = <<>>
    /\ results = <<>>
    /\ total_score = JNum(0)

\* C7: a generate-questions request with empty content, a count outside 1..20 or an
\* unrecognised difficulty, and an evaluate-answers request with no submissions,
\* each end in an error response with no remote invocation, no fallback result and
\* no summary.
C7_InvalidInputRejected ==
    /\ (op = "generate" /\ InvalidGenerateRequest(data)) => Rejected
    /\ (op = "evaluate" /\ ~Truthy(Submissions(data))) => Rejected

C7_Witness ==
    /\ Handled("generate")
    /\ Content(data) = JStr(CatContent)
    /\ CoercionError(data) = "" /\ NumQuestions(data) = JNum(MaxQuestions + 1)
    /\ Difficulty(data) = JStr(EASY)
    /\ out = ErrorResponse(400, "Number of questions must be between 1 and 20")

\* C8: fallback_evaluation yields a similarity_score in 0..100 equal to
\* floor(100 * |words(correct) & words(user)| / |words(correct)|) over lowercased
\* whitespace-token sets, 0 for an empty reference, and a correctness_score of
\* min(similarity_score + 10, 100); an empty user answer gives 0 and 10.
C8_SimilarityIsFloorOfRatio ==
    Handled("score")
    => LET user_words == WordSet(Lower(data.user_answer))
           correct_words == WordSet(Lower(data.correct_answer))
           ratio == IF correct_words = {} THEN 0
                    ELSE (100 * Cardinality(user_words \cap correct_words))
                             \div Cardinality(correct_words)
       IN  /\ out.o.similarity_score.n \in 0..100
           /\ out.o.similarity_score.n = ratio
           /\ out.o.correctness_score.n = Min(out.o.similarity_score.n + 10, 100)
           /\ data.user_answer = <<>>
              => out.o.similarity_score.n = 0 /\ out.o.correctness_score.n = 10

RemoteInvocations == Cardinality({i \in DOMAIN log : log[i].ev = "invoke"})

\* C9: the remote collaborator is invoked at most once per generation, and a batch of
\* n submissions makes exactly n remote invocations, one per submission in input
\* order, each returning (remote result or fallback) before the next starts.
C9_OneInvocationPerSubmission ==
    /\ op = "generate" => RemoteInvocations <= 1
    /\ (Handled("evaluate") /\ WellTypedBatch(data))
       => /\ Len(log) = 2 * BatchSize(data)
          /\ \A i \in 1..BatchSize(data) :
                 /\ log[2 * i - 1].ev = "invoke" /\ log[2 * i - 1].i = i
                 /\ log[2 * i].ev = "return" /\ log[2 * i].i = i

\* C10: a completed batch has one result per submission, in order, and results[i]
\* carries exactly the question, user_answer, correct_answer and time_taken of
\* submissions[i] (empty string or 0 where omitted), whatever keys the evaluation has.
C10_SubmissionFieldsKept ==
    (Handled("evaluate") /\ out.status = 200)
    => /\ Len(out.body.results) = BatchSize(data)
       /\ \A i \in DOMAIN out.body.results :
              \A field \in {"question", "user_answer", "correct_answer", "time_taken"} :
                  out.body.results[i][field]
                      = SubmissionFields(SubmissionAt(data, i))[field]

====
